---- MODULE Spec2Model ----
(***************************************************************************)
(* Credit ledger and booking state machine of the pet-care scheduler.      *)
(*                                                                         *)
(* The store holds three collections: packs, scheduledServices and         *)
(* operations.  Callers (browser sessions) hold a snapshot of a booking or *)
(* a selected pack in a confirmation dialog and then invoke one of the     *)
(* hook functions of useSchedule / usePacks / useClientPacks.  The         *)
(* functions that touch a pack run inside runTransaction: the update       *)
(* function reads the pack with transaction.get, buffers its writes, and   *)
(* the commit succeeds only when the pack was not written since the read;  *)
(* otherwise the update function is run again.  Documents that are written *)
(* without having been read in the transaction (the booking, the operation *)
(* documents) are written blindly.                                         *)
(***************************************************************************)
EXTENDS Integers, FiniteSets, Sequences, TLC

\* ---------------------------------------------------------------- bounds
\* addPack is followed for totalCredits in 1..MaxTotalCredits, and a run for
\* at most MaxOps created operation documents (debits).
MaxTotalCredits == 2
MaxOps == 2

PackSeq == <<"p1">>
ServiceSeq == <<"s1", "s2">>
Packs == {PackSeq[i] : i \in DOMAIN PackSeq}
Services == {ServiceSeq[i] : i \in DOMAIN ServiceSeq}
Callers == {"a", "b"}
Days == {1}

\* ------------------------------------------------------------- constants
NoId == "no_id"
NoPack == "no_pack"
Null == "null"
Stamp == "timestamp"
\* Timestamp.now() of registerOperation: a clock reading, never equal to the
\* noon or midnight timestamp of a scheduled date.
NowDate == <<0, "now">>
\* A scheduled date is a timestamp: the booking form stores noon of the chosen
\* day, the reschedule drawer stores midnight of the chosen day.
Noon(d) == <<d, "12:00">>
Midnight(d) == <<d, "00:00">>

OperationType == {"walk", "full_day", "partial"}
\* The booking types the model draws its inputs from.
InputTypes == {"walk", "full_day"}
ScheduleStatus == {"scheduled", "completed", "cancelled", "not_done"}

OPERATION_WEIGHTS(t) ==
  CASE t = "walk" -> 1
    [] t = "full_day" -> 2
    [] t = "partial" -> 1

Max(a, b) == IF a >= b THEN a ELSE b
Min(a, b) == IF a <= b THEN a ELSE b

ServiceType == {"walk", "sitter"}
\* The capacity the pack forms give a sitter pack ("Ilimitado para sitter").
SitterCredits == 9999
\* The number of times runTransaction runs its update function when it is
\* given no options, as in the three calls of the hooks.
MaxAttempts == 5
\* PackForm.handleSubmit / EditPackForm.handleSubmit: the totalCredits sent.
PackFormCredits(serviceType, totalCredits) ==
  IF serviceType = "sitter" THEN SitterCredits ELSE totalCredits

\* The catalog of half-hour start slots, in order.
TIME_SLOTS ==
  << "06:50-07:20", "07:30-08:00", "08:00-08:30", "09:00-09:30",
     "09:30-10:00", "10:30-11:00", "11:00-11:30", "14:30-15:00",
     "15:00-15:30", "16:00-16:30", "16:30-17:00", "17:30-18:00",
     "18:00-18:30" >>
SlotCodes == {TIME_SLOTS[i] : i \in DOMAIN TIME_SLOTS}
\* The value of the "Sem horário" option of the time selects.
NoTime == ""
ServiceDuration == {30, 60, 90, 120}

VARIABLES
  packs,        \* pack id -> pack document
  services,     \* booking id -> scheduledService document
  operations,   \* set of operation documents
  nextOpId,     \* the auto-generated id of the next operation document
  calls,        \* caller -> position, captured arguments and error of its call
  lastDebit     \* history: pack -> the booking debit last committed on it

vars == <<packs, services, operations, nextOpId, calls, lastDebit>>

\* A document that does not exist (docSnap.exists() is false).
NoPackDoc == [exists |-> FALSE, clientId |-> Null, serviceType |-> Null,
              totalCredits |-> 0, usedCredits |-> 0, isActive |-> FALSE]
\* duration 0 stands for a booking document without a duration field.
NoServiceDoc == [exists |-> FALSE, clientId |-> Null, packId |-> NoPack,
                 scheduledDate |-> <<0, "null">>, scheduledTime |-> NoTime,
                 duration |-> 0, type |-> Null, status |-> Null,
                 completedAt |-> Null]

Idle == [pc |-> "idle", id |-> NoId, snap |-> NoServiceDoc, type |-> Null,
         error |-> "none", txUsed |-> 0, txDeact |-> FALSE, txOps |-> {}, txValid |-> TRUE,
         attempts |-> 0]

InTx == {"completeTx", "revertGet", "revertTx", "registerTx"}

NoDebit == [svc |-> NoId, used |-> 0]

Init ==
  /\ packs = [p \in Packs |-> NoPackDoc]
  /\ services = [s \in Services |-> NoServiceDoc]
  /\ operations = {}
  /\ nextOpId = 1
  /\ calls = [c \in Callers |-> Idle]
  /\ lastDebit = [p \in Packs |-> NoDebit]

\* ------------------------------------------------------- store primitives
\* The pack a call in a transaction has read.
TxPackOf(call) == IF call.pc = "registerTx" THEN call.id ELSE call.snap.packId

\* Faulty variant: a commit that fails no other transaction (no precondition on the
\* documents read).
InvalidateNone(c, p) ==
  [d \in Callers |-> IF d = c THEN Idle ELSE calls[d]]

\* A committed write to pack p fails the precondition of every other
\* transaction that has read p and not yet committed (the writes such a
\* transaction has buffered are discarded with it); caller c is done.
Invalidate(c, p) ==
  [d \in Callers |->
     IF d = c THEN Idle
     ELSE IF calls[d].pc \in InTx /\ TxPackOf(calls[d]) = p
          THEN [calls[d] EXCEPT !.txValid = FALSE, !.txUsed = 0,
                                !.txDeact = FALSE, !.txOps = {}]
          ELSE calls[d]]

\* The call of caller c returns and its dialog is closed.
Finish(c) == calls' = [calls EXCEPT ![c] = Idle]

\* The call of caller c throws r with no write: the handler shows the message
\* and leaves the dialog, with the object it holds, open.
Throw(c, r) ==
  calls' = [calls EXCEPT ![c] =
     [Idle EXCEPT !.pc = IF calls[c].pc \in {"selected", "registerTx"}
                         THEN "selected" ELSE "held",
                  !.id = calls[c].id, !.snap = calls[c].snap, !.error = r]]

\* ------------------------------------------------------------ useClients
\* addDoc gives the new pack an id that no document has had before.
addPack(i, serviceType, totalCredits) ==
  /\ packs[PackSeq[i]] = NoPackDoc
  /\ \A j \in DOMAIN PackSeq : j < i => packs[PackSeq[j]] # NoPackDoc
  /\ packs' = [packs EXCEPT ![PackSeq[i]] =
        [exists |-> TRUE, clientId |-> "c1", serviceType |-> serviceType,
         totalCredits |-> totalCredits, usedCredits |-> 0, isActive |-> TRUE]]
  /\ UNCHANGED <<services, operations, nextOpId, calls, lastDebit>>

\* A write to pack p outside a transaction (updateDoc, deleteDoc) fails the
\* precondition of every transaction that has read p and not yet committed.
Conflict(p) ==
  [d \in Callers |->
     IF calls[d].pc \in InTx /\ TxPackOf(calls[d]) = p
     THEN [calls[d] EXCEPT !.txValid = FALSE, !.txUsed = 0,
                           !.txDeact = FALSE, !.txOps = {}]
     ELSE calls[d]]

\* updateDoc(packRef, {isActive: false, endDate: now}); it fails on a pack
\* document that does not exist.
closePack(p) ==
  /\ packs[p].exists
  /\ packs' = [packs EXCEPT ![p].isActive = FALSE]
  /\ calls' = Conflict(p)
  /\ UNCHANGED <<services, operations, nextOpId, lastDebit>>

\* A deleted document: it does not exist and its id is not given again.
DeletedPackDoc == [NoPackDoc EXCEPT !.clientId = "deleted"]

\* deleteDoc(packRef): the bookings and operations of the pack stay.
deletePack(p) ==
  /\ packs[p].exists
  /\ packs' = [packs EXCEPT ![p] = DeletedPackDoc]
  /\ calls' = Conflict(p)
  /\ lastDebit' = [lastDebit EXCEPT ![p] = NoDebit]
  /\ UNCHANGED <<services, operations, nextOpId>>

\* ----------------------------------------------------------- useSchedule
\* The booking form links the booking to an active pack of the client, or to
\* none when the list of active packs is empty (or not loaded yet).
addScheduledService(i, pid, day, time, type) ==
  /\ ~services[ServiceSeq[i]].exists
  /\ \A j \in DOMAIN ServiceSeq : j < i => services[ServiceSeq[j]].exists
  /\ pid # NoPack => packs[pid].exists /\ packs[pid].isActive
  /\ services' = [services EXCEPT ![ServiceSeq[i]] =
        [exists |-> TRUE, clientId |-> "c1", packId |-> pid,
         scheduledDate |-> Noon(day), scheduledTime |-> time,
         duration |-> 0, type |-> type, status |-> "scheduled",
         completedAt |-> Null]]
  /\ UNCHANGED <<packs, operations, nextOpId, calls, lastDebit>>

\* The fields of a booking object the hook functions read.
Snapshot(service) == [service EXCEPT !.completedAt = Null]

\* A session opens a confirmation dialog on a booking of its list and keeps
\* the booking object it was given; the list leaves cancelled bookings out.
setConfirm(c, s) ==
  /\ calls[c].pc = "idle"
  /\ services[s].exists
  /\ services[s].status \in {"scheduled", "completed", "not_done"}
  /\ calls' = [calls EXCEPT ![c] = [Idle EXCEPT !.pc = "held", !.id = s,
                                                 !.snap = Snapshot(services[s])]]
  /\ UNCHANGED <<packs, services, operations, nextOpId, lastDebit>>

\* onClose of a dialog: the session drops the object it holds.
closeDialog(c) ==
  /\ calls[c].pc \in {"held", "selected"}
  /\ Finish(c)
  /\ UNCHANGED <<packs, services, operations, nextOpId, lastDebit>>

\* updateDoc(serviceRef, data) for the fields the callers pass.
updateScheduledService(id, data) ==
  services' = [services EXCEPT ![id] =
     [f \in DOMAIN services[id] |->
        IF f \in DOMAIN data THEN data[f] ELSE services[id][f]]]

\* The buttons the cards show only for a booking whose status is 'scheduled'.
isPending(c) == calls[c].pc = "held" /\ calls[c].snap.status = "scheduled"

\* Faulty variant: the update function of completeService without the test
\* of packDoc.exists().
completeAttemptNoExists(c) ==
  LET service == calls[c].snap
      weight == OPERATION_WEIGHTS(service.type)
      packData == packs[service.packId]
      newUsedCredits == packData.usedCredits + weight
  IN IF newUsedCredits > packData.totalCredits
     THEN Throw(c, "insufficient_credits")
     ELSE calls' = [calls EXCEPT ![c] =
                [@ EXCEPT !.pc = "completeTx", !.error = "none",
                          !.txUsed = newUsedCredits,
                          !.txDeact = (newUsedCredits >= packData.totalCredits),
                          !.txValid = TRUE,
                               !.attempts = @ + 1]]

\* Faulty variant: the update function of completeService closing the pack
\* only when the capacity is exceeded (> for >=).
completeAttemptLateClose(c) ==
  LET service == calls[c].snap
      weight == OPERATION_WEIGHTS(service.type)
      packData == packs[service.packId]
      newUsedCredits == packData.usedCredits + weight
  IN IF ~packData.exists THEN Throw(c, "pack_not_found")
     ELSE IF newUsedCredits > packData.totalCredits
          THEN Throw(c, "insufficient_credits")
          ELSE calls' = [calls EXCEPT ![c] =
                     [@ EXCEPT !.pc = "completeTx", !.error = "none",
                               !.txUsed = newUsedCredits,
                               !.txDeact = (newUsedCredits > packData.totalCredits),
                               !.txValid = TRUE,
                               !.attempts = @ + 1]]

\* Faulty variant: the update function of completeService without the capacity check.
completeAttemptNoCheck(c) ==
  LET service == calls[c].snap
      weight == OPERATION_WEIGHTS(service.type)
      packData == packs[service.packId]
      newUsedCredits == packData.usedCredits + weight
  IN IF ~packData.exists THEN Throw(c, "pack_not_found")
     ELSE calls' = [calls EXCEPT ![c] =
                [@ EXCEPT !.pc = "completeTx", !.error = "none",
                          !.txUsed = newUsedCredits,
                          !.txDeact = (newUsedCredits >= packData.totalCredits),
                          !.txValid = TRUE,
                               !.attempts = @ + 1]]

\* One run of the update function of completeService: transaction.get of the
\* pack, the two throws, and the buffered writes.
completeAttempt(c) ==
  LET service == calls[c].snap
      weight == OPERATION_WEIGHTS(service.type)
      packData == packs[service.packId]
      newUsedCredits == packData.usedCredits + weight
  IN IF ~packData.exists THEN Throw(c, "pack_not_found")
     ELSE IF newUsedCredits > packData.totalCredits
          THEN Throw(c, "insufficient_credits")
          ELSE calls' = [calls EXCEPT ![c] =
                     [@ EXCEPT !.pc = "completeTx", !.error = "none",
                               !.txUsed = newUsedCredits,
                               !.txDeact = (newUsedCredits >= packData.totalCredits),
                               !.txValid = TRUE,
                               !.attempts = @ + 1]]

completeServiceBegin(c) ==
  /\ isPending(c)
  /\ calls[c].snap.packId # NoPack
  /\ completeAttempt(c)
  /\ UNCHANGED <<packs, services, operations, nextOpId, lastDebit>>

\* Faulty variant: a transaction that is run again after every failed commit.
completeServiceRetryForever(c) ==
  /\ calls[c].pc = "completeTx"
  /\ ~calls[c].txValid
  /\ completeAttempt(c)
  /\ UNCHANGED <<packs, services, operations, nextOpId, lastDebit>>

\* The commit of a transaction whose pack was written since it was read
\* fails: runTransaction runs the update function again, or rejects with the
\* error of the failed commit once it has made MaxAttempts attempts.
completeServiceRetry(c) ==
  /\ calls[c].pc = "completeTx"
  /\ ~calls[c].txValid
  /\ IF calls[c].attempts < MaxAttempts
     THEN completeAttempt(c)
     ELSE Throw(c, "failed_precondition")
  /\ UNCHANGED <<packs, services, operations, nextOpId, lastDebit>>

\* Faulty variant: a debit that never deactivates the pack.
DebitPackKeepsActive(pack, newUsedCredits, deact) ==
  [pack EXCEPT !.usedCredits = newUsedCredits]

\* The pack update of a debit: usedCredits, and isActive only when exhausted.
DebitPack(pack, newUsedCredits, deact) ==
  [pack EXCEPT !.usedCredits = newUsedCredits,
               !.isActive = IF deact THEN FALSE ELSE @]

NewOperation(pid, cid, date, type) ==
  [id |-> nextOpId, packId |-> pid, clientId |-> cid, date |-> date,
   type |-> type, weight |-> OPERATION_WEIGHTS(type)]

completeServiceCommit(c) ==
  LET service == calls[c].snap
      pid == service.packId
  IN /\ calls[c].pc = "completeTx"
     /\ calls[c].txValid
     /\ nextOpId <= MaxOps
     /\ nextOpId' = nextOpId + 1
     /\ packs' = [packs EXCEPT ![pid] =
                    DebitPack(@, calls[c].txUsed, calls[c].txDeact)]
     /\ operations' = operations \cup
           {NewOperation(pid, service.clientId, service.scheduledDate, service.type)}
     /\ updateScheduledService(calls[c].id,
           [status |-> "completed", completedAt |-> Stamp])
     /\ lastDebit' = [lastDebit EXCEPT ![pid] =
           IF services[calls[c].id].status = "scheduled"
           THEN [svc |-> calls[c].id, used |-> packs[pid].usedCredits]
           ELSE NoDebit]
     /\ calls' = Invalidate(c, pid)

completeServiceNoPack(c) ==
  /\ isPending(c)
  /\ calls[c].snap.packId = NoPack
  /\ updateScheduledService(calls[c].id,
        [status |-> "completed", completedAt |-> Stamp])
  /\ Finish(c)
  /\ UNCHANGED <<packs, operations, nextOpId, lastDebit>>

markAsNotDone(c) ==
  /\ isPending(c)
  /\ updateScheduledService(calls[c].id, [status |-> "not_done"])
  /\ Finish(c)
  /\ UNCHANGED <<packs, operations, nextOpId, lastDebit>>

cancelService(c) ==
  /\ isPending(c)
  /\ updateScheduledService(calls[c].id, [status |-> "cancelled"])
  /\ Finish(c)
  /\ UNCHANGED <<packs, operations, nextOpId, lastDebit>>

\* handleSaveReschedule: new Date(newDate + 'T00:00:00'), the new start slot
\* and the new duration.
reschedule(c, day, time, duration) ==
  /\ isPending(c)
  /\ updateScheduledService(calls[c].id,
        [scheduledDate |-> Midnight(day), scheduledTime |-> time,
         duration |-> duration])
  /\ Finish(c)
  /\ UNCHANGED <<packs, operations, nextOpId, lastDebit>>

\* The history cards show the revert button for 'completed' and 'not_done'.
isRevertable(c) ==
  /\ calls[c].pc = "held"
  /\ calls[c].snap.status \in {"completed", "not_done"}

\* Faulty variant: the credit branch taken for any pack-linked booking.
revertsCreditsAnyStatus(service) == service.packId # NoPack

\* The branch of revertServiceStatus that runs the transaction.
revertsCredits(service) == service.status = "completed" /\ service.packId # NoPack

\* Faulty variant: a reversal without the floor at zero.
CreditedUsedNoFloor(used, weight) == used - weight

\* Faulty variant: a reversal that credits one credit whatever the booking type.
CreditedUsedOne(used, weight) == Max(0, used - 1)

\* The credit of a reversal.
CreditedUsed(used, weight) == Max(0, used - weight)

\* First part of the update function of revertServiceStatus: transaction.get
\* of the pack, the throw, and newUsedCredits.
revertAttempt(c) ==
  LET service == calls[c].snap
      weight == OPERATION_WEIGHTS(service.type)
      packData == packs[service.packId]
  IN IF ~packData.exists THEN Throw(c, "pack_not_found")
     ELSE calls' = [calls EXCEPT ![c] =
                [@ EXCEPT !.pc = "revertGet", !.error = "none",
                          !.txUsed = CreditedUsed(packData.usedCredits, weight),
                          !.txOps = {}, !.txValid = TRUE,
                               !.attempts = @ + 1]]

revertServiceBegin(c) ==
  /\ isRevertable(c)
  /\ revertsCredits(calls[c].snap)
  /\ revertAttempt(c)
  /\ UNCHANGED <<packs, services, operations, nextOpId, lastDebit>>

\* The operations the query of revertServiceStatus matches.
MatchingOperations(service) ==
  {o \in operations : /\ o.packId = service.packId
                      /\ o.clientId = service.clientId
                      /\ o.date = service.scheduledDate}

\* getDocs(operationsQuery): a plain read, outside the transaction's read set.
revertServiceQuery(c) ==
  /\ calls[c].pc = "revertGet"
  /\ calls' = [calls EXCEPT ![c] =
        [@ EXCEPT !.pc = "revertTx",
                  !.txOps = {o.id : o \in MatchingOperations(calls[c].snap)}]]
  /\ UNCHANGED <<packs, services, operations, nextOpId, lastDebit>>

revertServiceRetry(c) ==
  /\ calls[c].pc = "revertTx"
  /\ ~calls[c].txValid
  /\ IF calls[c].attempts < MaxAttempts
     THEN revertAttempt(c)
     ELSE Throw(c, "failed_precondition")
  /\ UNCHANGED <<packs, services, operations, nextOpId, lastDebit>>

\* Faulty variant: a reversal that leaves isActive as it finds it.
CreditPackKeepsClosed(pack, newUsedCredits) ==
  [pack EXCEPT !.usedCredits = newUsedCredits]

\* The pack update of a reversal.
CreditPack(pack, newUsedCredits) ==
  [pack EXCEPT !.usedCredits = newUsedCredits, !.isActive = TRUE]

revertServiceCommit(c) ==
  LET service == calls[c].snap
      pid == service.packId
  IN /\ calls[c].pc = "revertTx"
     /\ calls[c].txValid
     /\ operations' = {o \in operations : o.id \notin calls[c].txOps}
     /\ packs' = [packs EXCEPT ![pid] = CreditPack(@, calls[c].txUsed)]
     /\ updateScheduledService(calls[c].id,
           [status |-> "scheduled", completedAt |-> Null])
     /\ lastDebit' = [lastDebit EXCEPT ![pid] = NoDebit]
     /\ calls' = Invalidate(c, pid)
     /\ UNCHANGED nextOpId

revertServiceNoCredit(c) ==
  /\ isRevertable(c)
  /\ ~revertsCredits(calls[c].snap)
  /\ updateScheduledService(calls[c].id,
        [status |-> "scheduled", completedAt |-> Null])
  /\ Finish(c)
  /\ UNCHANGED <<packs, operations, nextOpId, lastDebit>>

\* ------------------------------------------------------------- usePacks
\* The dashboard lists the active packs; the session keeps the selected one.
setSelectedPack(c, p) ==
  /\ calls[c].pc = "idle"
  /\ packs[p].exists
  /\ packs[p].isActive
  /\ calls' = [calls EXCEPT ![c] = [Idle EXCEPT !.pc = "selected", !.id = p]]
  /\ UNCHANGED <<packs, services, operations, nextOpId, lastDebit>>

\* One run of the update function of registerOperation.
registerAttempt(c, operationType) ==
  LET weight == OPERATION_WEIGHTS(operationType)
      packData == packs[calls[c].id]
      newUsedCredits == packData.usedCredits + weight
  IN IF ~packData.exists THEN Throw(c, "pack_not_found")
     ELSE IF newUsedCredits > packData.totalCredits
          THEN Throw(c, "insufficient_credits")
          ELSE calls' = [calls EXCEPT ![c] =
                     [@ EXCEPT !.pc = "registerTx", !.type = operationType,
                               !.error = "none",
                               !.txUsed = newUsedCredits,
                               !.txDeact = (newUsedCredits >= packData.totalCredits),
                               !.txValid = TRUE,
                               !.attempts = @ + 1]]

registerOperationBegin(c, operationType) ==
  /\ calls[c].pc = "selected"
  /\ registerAttempt(c, operationType)
  /\ UNCHANGED <<packs, services, operations, nextOpId, lastDebit>>

registerOperationRetry(c) ==
  /\ calls[c].pc = "registerTx"
  /\ ~calls[c].txValid
  /\ IF calls[c].attempts < MaxAttempts
     THEN registerAttempt(c, calls[c].type)
     ELSE Throw(c, "failed_precondition")
  /\ UNCHANGED <<packs, services, operations, nextOpId, lastDebit>>

registerOperationCommit(c) ==
  LET pid == calls[c].id
  IN /\ calls[c].pc = "registerTx"
     /\ calls[c].txValid
     /\ nextOpId <= MaxOps
     /\ nextOpId' = nextOpId + 1
     /\ packs' = [packs EXCEPT ![pid] =
                    DebitPack(@, calls[c].txUsed, calls[c].txDeact)]
     /\ operations' = operations \cup
           {NewOperation(pid, packs[pid].clientId, NowDate, calls[c].type)}
     /\ lastDebit' = [lastDebit EXCEPT ![pid] = NoDebit]
     /\ calls' = Invalidate(c, pid)
     /\ UNCHANGED services

Next ==
  \/ \E i \in DOMAIN PackSeq, total \in 1..MaxTotalCredits :
        addPack(i, "walk", PackFormCredits("walk", total))
  \/ \E i \in DOMAIN ServiceSeq, pid \in Packs, day \in Days,
        type \in InputTypes :
        addScheduledService(i, pid, day, TIME_SLOTS[1], type)
  \/ \E c \in Callers, s \in Services : setConfirm(c, s)
  \/ \E c \in Callers : closeDialog(c)
  \/ \E c \in Callers : completeServiceBegin(c)
  \/ \E c \in Callers : completeServiceRetry(c)
  \/ \E c \in Callers : completeServiceCommit(c)
  \/ \E c \in Callers : markAsNotDone(c)
  \/ \E c \in Callers : cancelService(c)
  \/ \E c \in Callers : revertServiceBegin(c)
  \/ \E c \in Callers : revertServiceQuery(c)
  \/ \E c \in Callers : revertServiceRetry(c)
  \/ \E c \in Callers : revertServiceCommit(c)
  \/ \E c \in Callers : revertServiceNoCredit(c)
  \/ \E c \in Callers, p \in Packs : setSelectedPack(c, p)
  \/ \E c \in Callers : registerOperationBegin(c, "walk")
  \/ \E c \in Callers : registerOperationRetry(c)
  \/ \E c \in Callers : registerOperationCommit(c)

Spec == Init /\ [][Next]_vars

\* One session working alone, with every operation of the ledger and of the
\* booking state machine, bookings without a pack, and packs closed or
\* deleted from the client page.
Solo == {"a"}

SoloNext ==
  \/ \E i \in DOMAIN PackSeq, total \in 1..MaxTotalCredits :
        addPack(i, "walk", PackFormCredits("walk", total))
  \/ \E p \in Packs : closePack(p)
  \/ \E p \in Packs : deletePack(p)
  \/ \E i \in DOMAIN ServiceSeq, pid \in Packs \cup {NoPack}, day \in Days,
        type \in InputTypes :
        addScheduledService(i, pid, day, TIME_SLOTS[1], type)
  \/ \E c \in Solo, s \in Services : setConfirm(c, s)
  \/ \E c \in Solo : closeDialog(c)
  \/ \E c \in Solo : completeServiceBegin(c)
  \/ \E c \in Solo : completeServiceRetry(c)
  \/ \E c \in Solo : completeServiceCommit(c)
  \/ \E c \in Solo : completeServiceNoPack(c)
  \/ \E c \in Solo : markAsNotDone(c)
  \/ \E c \in Solo : cancelService(c)
  \/ \E c \in Solo, day \in Days :
        reschedule(c, day, TIME_SLOTS[1], 30)
  \/ \E c \in Solo : revertServiceBegin(c)
  \/ \E c \in Solo : revertServiceQuery(c)
  \/ \E c \in Solo : revertServiceRetry(c)
  \/ \E c \in Solo : revertServiceCommit(c)
  \/ \E c \in Solo : revertServiceNoCredit(c)
  \/ \E c \in Solo, p \in Packs : setSelectedPack(c, p)
  \/ \E c \in Solo, t \in InputTypes : registerOperationBegin(c, t)
  \/ \E c \in Solo : registerOperationRetry(c)
  \/ \E c \in Solo : registerOperationCommit(c)

SoloSpec == Init /\ [][SoloNext]_vars

\* The steps runTransaction takes by itself once a hook has called it: the
\* query inside the update function, the commit, and the re-run or the
\* rejection after a failed commit.
TxStep(c) ==
  \/ completeServiceRetry(c)
  \/ completeServiceCommit(c)
  \/ revertServiceQuery(c)
  \/ revertServiceRetry(c)
  \/ revertServiceCommit(c)

\* One session completing and reverting bookings while the pack it debits
\* is written from the client page (closePack) any number of times.  The
\* promise of runTransaction settles: its steps are taken when they stay
\* possible.
RetryNext ==
  \/ \E i \in DOMAIN PackSeq, total \in 1..MaxTotalCredits :
        addPack(i, "walk", PackFormCredits("walk", total))
  \/ \E p \in Packs : closePack(p)
  \/ \E i \in DOMAIN ServiceSeq, pid \in Packs, day \in Days,
        type \in InputTypes :
        addScheduledService(i, pid, day, TIME_SLOTS[1], type)
  \/ \E c \in Solo, s \in Services : setConfirm(c, s)
  \/ \E c \in Solo : closeDialog(c)
  \/ \E c \in Solo : completeServiceBegin(c)
  \/ \E c \in Solo : completeServiceRetry(c)
  \/ \E c \in Solo : completeServiceCommit(c)
  \/ \E c \in Solo : revertServiceBegin(c)
  \/ \E c \in Solo : revertServiceQuery(c)
  \/ \E c \in Solo : revertServiceRetry(c)
  \/ \E c \in Solo : revertServiceCommit(c)

RetrySpec ==
  Init /\ [][RetryNext]_vars /\ \A c \in Solo : WF_vars(TxStep(c))

\* -------------------------------------------------------------- slot grid
\* TIME_SLOTS.findIndex(s => s.value === startSlot), counted from 1; 0 when
\* no slot has the code (-1 in the source).
findIndex(startSlot) ==
  IF startSlot \in SlotCodes
  THEN CHOOSE i \in DOMAIN TIME_SLOTS : TIME_SLOTS[i] = startSlot
  ELSE 0

\* Faulty variant: one slot too many.
CeilPlusOne(a, b) == a \div b + 1

\* Math.ceil(a / b) for positive integers.
Ceil(a, b) == (a + b - 1) \div b

\* Faulty variant: the loop of getOccupiedSlots going on at the first slot of
\* the catalog when it passes the last one.
OccupiedLoopWrap(startIndex, slotsNeeded, i, slots) ==
  [k \in 1..slotsNeeded |->
     TIME_SLOTS[((startIndex + k - 2) % Len(TIME_SLOTS)) + 1]]

\* for (let i = 0; i < slotsNeeded && startIndex + i < TIME_SLOTS.length; i++)
\*   slots.push(TIME_SLOTS[startIndex + i].value)
RECURSIVE OccupiedLoop(_, _, _, _)
OccupiedLoop(startIndex, slotsNeeded, i, slots) ==
  IF i < slotsNeeded /\ startIndex + i <= Len(TIME_SLOTS)
  THEN OccupiedLoop(startIndex, slotsNeeded, i + 1,
                    Append(slots, TIME_SLOTS[startIndex + i]))
  ELSE slots

getOccupiedSlots(startSlot, duration) ==
  LET startIndex == findIndex(startSlot)
      slotsNeeded == Ceil(duration, 30)
  IN IF startIndex = 0 THEN <<startSlot>>
     ELSE OccupiedLoop(startIndex, slotsNeeded, 0, <<>>)

\* (service.duration || 30): a booking document without duration counts 30.
DurationOf(service) == IF service.duration = 0 THEN 30 ELSE service.duration

\* --------------------------------------------------------- schedule page
\* a.scheduledDate.toMillis(): midnight of a day comes before its noon.
DateRank(date) == 2 * date[1] + (IF date[2] = "12:00" THEN 1 ELSE 0)

\* (scheduledTime || '99:99') under localeCompare: the slot codes compare in
\* catalog order, and a booking without a time comes after all of them.
TimeRank(time) == IF time = NoTime THEN Len(TIME_SLOTS) + 1 ELSE findIndex(time)

\* The place of a document in the query snapshot (the sort is stable).
DocIndex(s) == CHOOSE i \in DOMAIN ServiceSeq : ServiceSeq[i] = s

\* The comparison of the sort of the useSchedule listener.
SortsBefore(a, b) ==
  LET da == DateRank(services[a].scheduledDate)
      db == DateRank(services[b].scheduledDate)
      ta == TimeRank(services[a].scheduledTime)
      tb == TimeRank(services[b].scheduledTime)
  IN \/ da < db
     \/ da = db /\ ta < tb
     \/ da = db /\ ta = tb /\ DocIndex(a) < DocIndex(b)

RECURSIVE SortServices(_)
SortServices(S) ==
  IF S = {} THEN <<>>
  ELSE LET first == CHOOSE a \in S : \A b \in S \ {a} : SortsBefore(a, b)
       IN <<first>> \o SortServices(S \ {first})

\* The list of the useSchedule listener: the bookings of the query that are
\* not cancelled, sorted by date and then by time.
allServices ==
  SortServices({s \in Services : /\ services[s].exists
                                 /\ services[s].status # "cancelled"})

\* The days of the calendar the schedule page draws its bookings from, and
\* the day it shows.
SlotDays == {1, 2}
selectedDate == 1

\* isSameDay(service.scheduledDate.toDate(), selectedDate)
servicesForDate ==
  SelectSeq(allServices,
            LAMBDA s : services[s].scheduledDate[1] = selectedDate)

\* Array.prototype.find: the first element that passes the test (given as
\* the set of the elements passing it), NoId (undefined) when none does.
find(seq, passing) ==
  LET I == {i \in DOMAIN seq : seq[i] \in passing}
  IN IF I = {} THEN NoId
     ELSE seq[CHOOSE i \in I : \A j \in I : i <= j]

InSeq(seq, x) == \E i \in DOMAIN seq : seq[i] = x

SlotViewItem(type, slot, service, slotsSpanned) ==
  [type |-> type, slot |-> slot, service |-> service,
   slotsSpanned |-> slotsSpanned]

\* The second find of the loop: a booking with a time whose occupied slots
\* include the slot and that does not start there.
occupiesSlot(s, slot) ==
  /\ services[s].scheduledTime # NoTime
  /\ InSeq(getOccupiedSlots(services[s].scheduledTime,
                            DurationOf(services[s])), slot)
  /\ services[s].scheduledTime # slot

\* for (const slot of TIME_SLOTS) { ... }: i is the place of the slot in the
\* catalog, view the entries pushed so far.
RECURSIVE SlotsLoop(_, _, _)
SlotsLoop(i, view, processedSlots) ==
  IF i > Len(TIME_SLOTS) THEN view
  ELSE
    LET slot == TIME_SLOTS[i]
        serviceStartingHere ==
          find(servicesForDate,
               {s \in Services : services[s].scheduledTime = slot})
        occupiedSlots ==
          getOccupiedSlots(slot, DurationOf(services[serviceStartingHere]))
        serviceOccupyingSlot ==
          find(servicesForDate, {s \in Services : occupiesSlot(s, slot)})
    IN IF slot \in processedSlots
         THEN SlotsLoop(i + 1, view, processedSlots)
       ELSE IF serviceStartingHere # NoId
         THEN SlotsLoop(i + 1,
                Append(view, SlotViewItem("service-start", slot,
                                          serviceStartingHere,
                                          Len(occupiedSlots))),
                processedSlots \cup
                  {occupiedSlots[k] : k \in DOMAIN occupiedSlots})
       ELSE IF serviceOccupyingSlot # NoId
         THEN SlotsLoop(i + 1,
                Append(view, SlotViewItem("service-continuation", slot,
                                          serviceOccupyingSlot, 0)),
                processedSlots \cup {slot})
       ELSE SlotsLoop(i + 1, Append(view, SlotViewItem("empty", slot, NoId, 0)),
                      processedSlots)

slotsView == SlotsLoop(1, <<>>, {})

servicesWithoutSlot ==
  SelectSeq(servicesForDate,
            LAMBDA s : \/ services[s].scheduledTime = NoTime
                       \/ services[s].scheduledTime \notin SlotCodes)

\* The schedule page of one session: bookings without a pack are added at
\* any slot or without a time, rescheduled to any day, slot and duration,
\* and cancelled.
SlotNext ==
  \/ \E i \in DOMAIN ServiceSeq, day \in SlotDays,
        time \in SlotCodes \cup {NoTime} :
        addScheduledService(i, NoPack, day, time, "walk")
  \/ \E c \in Solo, s \in Services : setConfirm(c, s)
  \/ \E c \in Solo : closeDialog(c)
  \/ \E c \in Solo : cancelService(c)
  \/ \E c \in Solo, day \in SlotDays, time \in SlotCodes \cup {NoTime},
        duration \in ServiceDuration : reschedule(c, day, time, duration)

SlotSpec == Init /\ [][SlotNext]_vars

\* -------------------------------------------------------- schedule form
\* The value of a date input, 'YYYY-MM-DD', as <<year, month, day>>; the
\* empty string as <<>>.
NoDate == <<>>

\* a <= b on two date strings: the fields have a fixed width, so the
\* comparison of the strings is the comparison of year, month and day in
\* this order.
IsoLeq(a, b) ==
  \/ a[1] < b[1]
  \/ a[1] = b[1] /\ a[2] < b[2]
  \/ a[1] = b[1] /\ a[2] = b[2] /\ a[3] <= b[3]

DaysInMonth(year, month) ==
  IF month = 2
  THEN (IF year % 4 = 0 /\ (year % 100 # 0 \/ year % 400 = 0) THEN 29 ELSE 28)
  ELSE IF month \in {4, 6, 9, 11} THEN 30 ELSE 31

RECURSIVE DaysBeforeMonth(_, _)
DaysBeforeMonth(year, month) ==
  IF month <= 1 THEN 0
  ELSE DaysBeforeMonth(year, month - 1) + DaysInMonth(year, month - 1)

\* new Date(year, month - 1, day), local midnight of the day. The calendar
\* of the model is the year 2024: a Date is the number of its day in it, 1
\* for 2024-01-01, a Monday.
DateOf(iso) == DaysBeforeMonth(iso[1], iso[2]) + iso[3]

\* Faulty variant: the weekdays counted from 1 = Sunday.
getDaySundayOne(date) == (date % 7) + 1

\* Date.prototype.getDay: 0 = Sunday .. 6 = Saturday.
getDay(date) == date % 7

\* Faulty variant: the end date excluded.
RecurLoopOpenEnd(currentDate, endDate, selectedWeekdays, dates) ==
  [k \in 1..Cardinality({d \in currentDate..(endDate - 1) :
                           getDay(d) \in selectedWeekdays}) |->
     Noon(CHOOSE d \in currentDate..(endDate - 1) :
            /\ getDay(d) \in selectedWeekdays
            /\ Cardinality({e \in currentDate..d :
                              getDay(e) \in selectedWeekdays}) = k)]

\* while (currentDate <= endDate) { if (selectedWeekdays.includes(
\* currentDate.getDay())) dates.push(noon of currentDate);
\* currentDate.setDate(currentDate.getDate() + 1) }
RECURSIVE RecurLoop(_, _, _, _)
RecurLoop(currentDate, endDate, selectedWeekdays, dates) ==
  IF currentDate <= endDate
  THEN RecurLoop(currentDate + 1, endDate, selectedWeekdays,
                 IF getDay(currentDate) \in selectedWeekdays
                 THEN Append(dates, Noon(currentDate)) ELSE dates)
  ELSE dates

generateRecurringDates(scheduledDate, recurrenceEndDate, selectedWeekdays) ==
  RecurLoop(DateOf(scheduledDate), DateOf(recurrenceEndDate),
            selectedWeekdays, <<>>)

\* The documents of the bookings collection a form session can add, and the
\* store failures (rejected addDoc calls) a behaviour has at most.
BatchSeq == <<"s1", "s2", "s3", "s4", "s5", "s6", "s7", "s8",
              "s9", "s10", "s11", "s12", "s13", "s14", "s15", "s16">>
BatchServices == {BatchSeq[i] : i \in DOMAIN BatchSeq}
MaxFailures == 1

\* The state of a ScheduleForm: the fields, the recurrence fields, the
\* validation errors, and the position of handleSubmit in its loop. failed
\* counts the rejected addDoc calls.
FormClosed ==
  [pc |-> "closed",
   formData |-> [scheduledDate |-> NoDate, scheduledTime |-> NoTime,
                 duration |-> 60, type |-> "walk"],
   isRecurring |-> FALSE, selectedWeekdays |-> {},
   recurrenceEndDate |-> NoDate, errors |-> {}, dates |-> <<>>, i |-> 0,
   recurrenceProgress |-> [current |-> 0, total |-> 0], failed |-> 0]

FormInit ==
  /\ packs = [p \in Packs |-> NoPackDoc]
  /\ services = [s \in BatchServices |-> NoServiceDoc]
  /\ operations = {}
  /\ nextOpId = 1
  /\ calls = [c \in Solo |-> FormClosed]
  /\ lastDebit = [p \in Packs |-> NoDebit]

\* The user opens the form and fills it in.
openForm(c, scheduledDate, scheduledTime, duration, isRecurring, selectedWeekdays, recurrenceEndDate) ==
  /\ calls[c].pc = "closed"
  /\ calls' = [calls EXCEPT ![c] =
        [FormClosed EXCEPT
           !.pc = "form",
           !.formData = [scheduledDate |-> scheduledDate,
                         scheduledTime |-> scheduledTime,
                         duration |-> duration, type |-> "walk"],
           !.isRecurring = isRecurring,
           !.selectedWeekdays = selectedWeekdays,
           !.recurrenceEndDate = recurrenceEndDate]]
  /\ UNCHANGED <<packs, services, operations, nextOpId, lastDebit>>

\* Faulty variant: the end date is not compared with the start date.
validateNoRange(form) ==
  (IF form.formData.scheduledDate = NoDate THEN {"scheduledDate"} ELSE {})
  \cup (IF form.isRecurring /\ form.selectedWeekdays = {}
        THEN {"weekdays"} ELSE {})
  \cup (IF form.isRecurring /\ form.recurrenceEndDate = NoDate
        THEN {"endDate"} ELSE {})

\* validate: the keys of newErrors (a client is always selected).
validate(form) ==
  (IF form.formData.scheduledDate = NoDate THEN {"scheduledDate"} ELSE {})
  \cup (IF form.isRecurring /\ form.selectedWeekdays = {}
        THEN {"weekdays"} ELSE {})
  \cup (IF form.isRecurring /\ form.recurrenceEndDate = NoDate
        THEN {"endDate"} ELSE {})
  \cup (IF /\ form.isRecurring
           /\ form.recurrenceEndDate # NoDate
           /\ form.formData.scheduledDate # NoDate
           /\ IsoLeq(form.recurrenceEndDate, form.formData.scheduledDate)
        THEN {"endDate"} ELSE {})

\* The document addScheduledService hands to addDoc: the duration of data
\* is not among its fields.
NewScheduledService(data) ==
  [exists |-> TRUE, clientId |-> "c1", packId |-> NoPack,
   scheduledDate |-> data.scheduledDate,
   scheduledTime |-> data.scheduledTime,
   duration |-> 0, type |-> data.type, status |-> "scheduled",
   completedAt |-> Null]

\* handleAddService(data): the hook adds the document under a new id; when
\* addDoc rejects (ok is false), the hook rethrows and handleAddService
\* catches the error and shows it: the promise it returns resolves in both
\* cases.
handleAddService(data, ok) ==
  IF ok
  THEN LET k == CHOOSE j \in DOMAIN BatchSeq :
                  /\ ~services[BatchSeq[j]].exists
                  /\ \A h \in 1..(j - 1) : services[BatchSeq[h]].exists
       IN services' = [services EXCEPT ![BatchSeq[k]] =
                         NewScheduledService(data)]
  ELSE UNCHANGED services

\* The data handleSubmit passes to onSubmit for a date.
SubmitData(form, scheduledDate) ==
  [scheduledDate |-> scheduledDate,
   scheduledTime |-> form.formData.scheduledTime,
   duration |-> form.formData.duration, type |-> form.formData.type]

\* handleSubmit up to its first await: validation, then the expansion of the
\* recurrence, or the one call of onSubmit of a single booking.
handleSubmit(c, ok) ==
  LET form == calls[c]
      newErrors == validate(form)
      dates == generateRecurringDates(form.formData.scheduledDate,
                                      form.recurrenceEndDate,
                                      form.selectedWeekdays)
  IN /\ form.pc = "form"
     /\ ok \/ form.failed < MaxFailures
     /\ IF newErrors # {}
        THEN /\ calls' = [calls EXCEPT ![c].pc = "invalid",
                                       ![c].errors = newErrors]
             /\ UNCHANGED services
        ELSE IF form.isRecurring
        THEN /\ calls' = [calls EXCEPT
                  ![c].pc = IF dates = <<>> THEN "done" ELSE "recurring",
                  ![c].dates = dates,
                  ![c].recurrenceProgress =
                      [current |-> 0, total |-> Len(dates)]]
             /\ UNCHANGED services
        ELSE /\ handleAddService(
                  SubmitData(form, Noon(DateOf(form.formData.scheduledDate))),
                  ok)
             /\ calls' = [calls EXCEPT
                  ![c].pc = "done",
                  ![c].failed = IF ok THEN @ ELSE @ + 1]
     /\ UNCHANGED <<packs, operations, nextOpId, lastDebit>>

\* One turn of the loop of handleSubmit: await onSubmit(...dates[i]...),
\* then setRecurrenceProgress({current: i + 1, total}).
onSubmit(c, ok) ==
  LET form == calls[c]
  IN /\ form.pc = "recurring"
     /\ form.i < Len(form.dates)
     /\ ok \/ form.failed < MaxFailures
     /\ handleAddService(SubmitData(form, form.dates[form.i + 1]), ok)
     /\ calls' = [calls EXCEPT
          ![c].i = @ + 1,
          ![c].recurrenceProgress.current = form.i + 1,
          ![c].failed = IF ok THEN @ ELSE @ + 1,
          ![c].pc = IF form.i + 1 = Len(form.dates) THEN "done"
                    ELSE "recurring"]
     /\ UNCHANGED <<packs, operations, nextOpId, lastDebit>>

\* The dates and recurrence settings the form is filled in with.
FormStartDates == {<<2024, 1, 1>>, <<2024, 1, 29>>}
FormEndDates == {NoDate, <<2024, 1, 1>>, <<2024, 1, 15>>, <<2024, 2, 2>>}
FormRanges ==
  {r \in FormStartDates \X FormEndDates :
     r[2] # NoDate /\ ~IsoLeq(r[2], r[1])
       => DateOf(r[2]) - DateOf(r[1]) < Len(BatchSeq) - 1}
Weekdays == 0..6

FormNext ==
  \/ \E c \in Solo, r \in FormRanges, scheduledTime \in {TIME_SLOTS[2]},
        duration \in {60, 120}, isRecurring \in BOOLEAN,
        selectedWeekdays \in SUBSET Weekdays :
        openForm(c, r[1], scheduledTime, duration, isRecurring,
                 selectedWeekdays, r[2])
  \/ \E c \in Solo, ok \in BOOLEAN : handleSubmit(c, ok)
  \/ \E c \in Solo, ok \in BOOLEAN : onSubmit(c, ok)

FormSpec == FormInit /\ [][FormNext]_vars

\* ------------------------------------------------------------ pack edit
\* updatePack(id, data) as EditPackForm calls it: updateDoc writes the
\* service type and the capacity of the form; usedCredits and isActive are
\* not among the fields. It fails on a pack document that does not exist.
updatePack(p, serviceType, totalCredits) ==
  /\ packs[p].exists
  /\ packs' = [packs EXCEPT
        ![p].serviceType = serviceType,
        ![p].totalCredits = PackFormCredits(serviceType, totalCredits)]
  /\ calls' = Conflict(p)
  /\ UNCHANGED <<services, operations, nextOpId, lastDebit>>

\* One session that adds a pack, books and completes on it, and edits it.
EditNext ==
  \/ \E i \in DOMAIN PackSeq, total \in 1..MaxTotalCredits :
        addPack(i, "walk", PackFormCredits("walk", total))
  \/ \E i \in DOMAIN ServiceSeq, pid \in Packs, day \in Days,
        type \in InputTypes :
        addScheduledService(i, pid, day, TIME_SLOTS[1], type)
  \/ \E c \in Solo, s \in Services : setConfirm(c, s)
  \/ \E c \in Solo : closeDialog(c)
  \/ \E c \in Solo : completeServiceBegin(c)
  \/ \E c \in Solo : completeServiceRetry(c)
  \/ \E c \in Solo : completeServiceCommit(c)
  \/ \E p \in Packs, total \in 1..MaxTotalCredits :
        updatePack(p, "walk", total)

EditSpec == Init /\ [][EditNext]_vars

\* ------------------------------------------------------------ migration
\* The one-hour slots of the old model and what each becomes.
OLD_TO_NEW_SLOTS ==
  [t \in {"06:50-07:20", "07:30-08:30", "09:00-10:00", "10:30-11:30",
           "14:30-15:30", "16:00-17:00", "17:30-18:30"} |->
     CASE t = "06:50-07:20" -> [newSlot |-> "06:50-07:20", duration |-> 30]
       [] t = "07:30-08:30" -> [newSlot |-> "07:30-08:00", duration |-> 60]
       [] t = "09:00-10:00" -> [newSlot |-> "09:00-09:30", duration |-> 60]
       [] t = "10:30-11:30" -> [newSlot |-> "10:30-11:00", duration |-> 60]
       [] t = "14:30-15:30" -> [newSlot |-> "14:30-15:00", duration |-> 60]
       [] t = "16:00-17:00" -> [newSlot |-> "16:00-16:30", duration |-> 60]
       [] t = "17:30-18:30" -> [newSlot |-> "17:30-18:00", duration |-> 60]]

NEW_SLOTS ==
  {"06:50-07:20", "07:30-08:00", "08:00-08:30", "09:00-09:30", "09:30-10:00",
   "10:30-11:00", "11:00-11:30", "14:30-15:00", "15:00-15:30", "16:00-16:30",
   "16:30-17:00", "17:30-18:00", "18:00-18:30"}

\* The runs of the migration a behaviour has at most.
MaxRuns == 2

\* The start slots and durations of the bookings the migration finds: none,
\* one-hour slots of the old model, half-hour slots of the new one, and a
\* code of neither catalog; no duration field, or one already set.
LegacyTimes == {NoTime, "06:50-07:20", "07:30-08:30", "17:30-18:30",
                "08:00-08:30", "12:00-13:00"}
LegacyDurations == {0, 60}

LegacyDoc(time, duration) ==
  [exists |-> TRUE, clientId |-> "c1", packId |-> NoPack,
   scheduledDate |-> Noon(1), scheduledTime |-> time, duration |-> duration,
   type |-> "walk", status |-> "scheduled", completedAt |-> Null]

ZeroResult == [total |-> 0, updated |-> 0, skipped |-> 0, errors |-> 0]

\* The position of migrateScheduledServicesToDuration: the query snapshot,
\* the place in it, the result so far; reports keeps the result of each
\* finished run with the number of its rejected writes (failed).
MigrationIdle ==
  [pc |-> "idle", snapshot |-> <<>>, k |-> 0, result |-> ZeroResult,
   failed |-> 0, reports |-> <<>>]

MigrationInit ==
  /\ packs = [p \in Packs |-> NoPackDoc]
  /\ services \in [Services ->
        {NoServiceDoc} \cup {LegacyDoc(t, d) : t \in LegacyTimes,
                                               d \in LegacyDurations}]
  /\ operations = {}
  /\ nextOpId = 1
  /\ calls = [c \in Solo |-> MigrationIdle]
  /\ lastDebit = [p \in Packs |-> NoDebit]

\* getDocs(collection): the documents of the collection as they are now.
migrateBegin(c) ==
  LET docs == SelectSeq(ServiceSeq, LAMBDA s : services[s].exists)
  IN /\ calls[c].pc = "idle"
     /\ Len(calls[c].reports) < MaxRuns
     /\ calls' = [calls EXCEPT
          ![c].pc = IF docs = <<>> THEN "idle" ELSE "migrating",
          ![c].snapshot = [j \in DOMAIN docs |->
                             [id |-> docs[j], data |-> services[docs[j]]]],
          ![c].k = 0,
          ![c].failed = 0,
          ![c].result = [ZeroResult EXCEPT !.total = Len(docs)],
          ![c].reports = IF docs = <<>>
                         THEN Append(@, [result |-> ZeroResult, failed |-> 0])
                         ELSE @]
     /\ UNCHANGED <<packs, services, operations, nextOpId, lastDebit>>

\* Faulty variant: no booking is taken as migrated already.
hasDurationNever(data) == FALSE

\* currentDuration !== undefined && currentDuration !== null
hasDuration(data) == data.duration # 0

\* The fields the migration writes to a booking without a duration.
MigrationUpdate(data) ==
  IF data.scheduledTime = NoTime
    THEN [scheduledTime |-> data.scheduledTime, duration |-> 30]
  ELSE IF data.scheduledTime \in DOMAIN OLD_TO_NEW_SLOTS
    THEN [scheduledTime |-> OLD_TO_NEW_SLOTS[data.scheduledTime].newSlot,
          duration |-> OLD_TO_NEW_SLOTS[data.scheduledTime].duration]
  ELSE [scheduledTime |-> data.scheduledTime, duration |-> 30]

\* One turn of the loop over snapshot.docs; ok is false when updateDoc
\* rejects. An unknown slot adds a message to errors though it is updated.
migrateStep(c, ok) ==
  LET m == calls[c]
      docSnapshot == m.snapshot[m.k + 1]
      data == docSnapshot.data
      skip == hasDuration(data)
      unknown == /\ data.scheduledTime # NoTime
                 /\ data.scheduledTime \notin DOMAIN OLD_TO_NEW_SLOTS
                 /\ data.scheduledTime \notin NEW_SLOTS
      written == ~skip /\ ok
      result == [m.result EXCEPT
                   !.skipped = IF skip THEN @ + 1 ELSE @,
                   !.updated = IF written THEN @ + 1 ELSE @,
                   !.errors = IF ~skip /\ (~ok \/ unknown) THEN @ + 1 ELSE @]
      failed == IF ~skip /\ ~ok THEN m.failed + 1 ELSE m.failed
      last == m.k + 1 = Len(m.snapshot)
  IN /\ m.pc = "migrating"
     /\ m.k < Len(m.snapshot)
     /\ skip => ok
     /\ ok \/ m.failed < MaxFailures
     /\ services' = IF written
                     THEN [services EXCEPT
                             ![docSnapshot.id].scheduledTime =
                                 MigrationUpdate(data).scheduledTime,
                             ![docSnapshot.id].duration =
                                 MigrationUpdate(data).duration]
                     ELSE services
     /\ calls' = [calls EXCEPT
          ![c].k = @ + 1,
          ![c].result = result,
          ![c].failed = failed,
          ![c].pc = IF last THEN "idle" ELSE "migrating",
          ![c].reports = IF last
                         THEN Append(@, [result |-> result, failed |-> failed])
                         ELSE @]
     /\ UNCHANGED <<packs, operations, nextOpId, lastDebit>>

MigrationNext ==
  \/ \E c \in Solo : migrateBegin(c)
  \/ \E c \in Solo, ok \in BOOLEAN : migrateStep(c, ok)

MigrationSpec == MigrationInit /\ [][MigrationNext]_vars

\* A sitter pack of the pack form in long use: one session completes
\* bookings on a sitter pack that earlier debits (their operation documents
\* are left out) have brought to usedCredits credits.
SitterUsed == {0, SitterCredits - 2, SitterCredits - 1}

SitterInit ==
  /\ \E used \in SitterUsed :
       packs = [p \in Packs |->
                  [exists |-> TRUE, clientId |-> "c1", serviceType |-> "sitter",
                   totalCredits |-> PackFormCredits("sitter", 0),
                   usedCredits |-> used, isActive |-> TRUE]]
  /\ services = [s \in Services |-> NoServiceDoc]
  /\ operations = {}
  /\ nextOpId = 1
  /\ calls = [c \in Callers |-> Idle]
  /\ lastDebit = [p \in Packs |-> NoDebit]

SitterNext ==
  \/ \E i \in DOMAIN ServiceSeq, pid \in Packs, day \in Days,
        type \in InputTypes :
        addScheduledService(i, pid, day, NoTime, type)
  \/ \E c \in Solo, s \in Services : setConfirm(c, s)
  \/ \E c \in Solo : closeDialog(c)
  \/ \E c \in Solo : completeServiceBegin(c)
  \/ \E c \in Solo : completeServiceCommit(c)

SitterSpec == SitterInit /\ [][SitterNext]_vars

\* ------------------------------------------------------------ properties
RECURSIVE SumWeights(_)
SumWeights(ops) ==
  IF ops = {} THEN 0
  ELSE LET o == CHOOSE x \in ops : TRUE
       IN o.weight + SumWeights(ops \ {o})

OperationsOf(p) == {o \in operations : o.packId = p}

SameTriple(x, y) ==
  /\ x.packId = y.packId
  /\ x.clientId = y.clientId
  /\ x.scheduledDate = y.scheduledDate

\* The pack a debit attempt of caller c reads, and the weight it asks for.
PackOfCall(c) == IF calls[c].pc \in {"selected", "registerTx"}
                 THEN calls[c].id ELSE calls[c].snap.packId
Remaining(p) == packs[p].totalCredits - packs[p].usedCredits

\* C1: for one pack-linked booking, completeService calls issued without a
\* revert in between leave at most one Operation record (one debit) for it:
\* the operations carrying a booking's (packId, clientId, scheduledDate) are
\* never more than the bookings that carry it.
C1_AtMostOneDebitPerBooking ==
  \A s \in Services :
    services[s].exists =>
      Cardinality(MatchingOperations(services[s]))
        <= Cardinality({r \in Services :
                          services[r].exists /\ SameTriple(services[r], services[s])})

\* C2: every pack satisfies 0 <= usedCredits <= totalCredits in every state.
C2_CreditsWithinCapacity ==
  \A p \in Packs :
    packs[p].exists =>
      /\ 0 <= packs[p].usedCredits
      /\ packs[p].usedCredits <= packs[p].totalCredits

\* A debit was refused on a pack that earlier debits had filled to capacity.
C2_Witness ==
  \E p \in Packs :
    /\ packs[p].exists
    /\ packs[p].usedCredits = packs[p].totalCredits
    /\ Cardinality(OperationsOf(p)) = 2
    /\ \E c \in Callers : calls[c].error = "insufficient_credits"

\* C3: for every pack the weights of its Operation records sum to its
\* usedCredits.
C3_LedgerSum ==
  \A p \in Packs :
    packs[p].exists => SumWeights(OperationsOf(p)) = packs[p].usedCredits

\* C4: a completeService that commits adds its weight to the balance the pack
\* has at the commit and stays within capacity, whatever other debit
\* committed while it ran: no committed debit is overwritten.
C4_NoLostUpdate ==
  [][\A c \in Callers :
       completeServiceCommit(c) =>
         LET p == calls[c].snap.packId
         IN /\ packs'[p].usedCredits =
                 packs[p].usedCredits + OPERATION_WEIGHTS(calls[c].snap.type)
            /\ packs'[p].usedCredits <= packs'[p].totalCredits]_vars

\* Two completions raced on one pack: the debit of one booking committed
\* while the transaction of the other had read the pack, which failed it.
C4_Witness ==
  \E c \in Callers :
    /\ calls[c].pc = "completeTx"
    /\ ~calls[c].txValid
    /\ lastDebit[calls[c].snap.packId].svc \notin {NoId, calls[c].id}
    /\ services[calls[c].id].status = "scheduled"

\* C5: completeService on a 'scheduled' booking followed by revertServiceStatus
\* on the then 'completed' booking, with no other operation on the pack in
\* between, restores usedCredits and the status and leaves completedAt null.
C5_RoundTrip ==
  [][\A c \in Callers :
       (/\ revertServiceCommit(c)
        /\ lastDebit[calls[c].snap.packId].svc = calls[c].id
        /\ services[calls[c].id].status = "completed")
       => /\ packs'[calls[c].snap.packId].usedCredits =
               lastDebit[calls[c].snap.packId].used
          /\ services'[calls[c].id].status = "scheduled"
          /\ services'[calls[c].id].completedAt = Null]_vars

\* A reversal of the debit last committed on the pack is ready to commit, for
\* a booking of weight 2.
C5_Witness ==
  \E c \in Callers :
    /\ calls[c].pc = "revertTx"
    /\ calls[c].txValid
    /\ lastDebit[calls[c].snap.packId].svc = calls[c].id
    /\ services[calls[c].id].status = "completed"
    /\ calls[c].snap.type = "full_day"

\* C6: a debit on a pack whose remaining credits are less than the weight
\* fails with the insufficient-credits error (whenever its update function
\* runs, in the first attempt or in a re-run) and changes no pack, operation
\* or booking.
C6_InsufficientCredits ==
  [][\A c \in Callers :
       /\ (/\ calls[c].snap.packId \in Packs
           /\ Remaining(calls[c].snap.packId)
                 < OPERATION_WEIGHTS(calls[c].snap.type)
           /\ \/ completeServiceBegin(c)
              \/ calls[c].attempts < MaxAttempts /\ completeServiceRetry(c))
          => (calls'[c].error = "insufficient_credits"
              /\ UNCHANGED <<packs, operations, services>>)
       /\ \A t \in OperationType :
            (/\ calls[c].id \in Packs
             /\ Remaining(calls[c].id) < OPERATION_WEIGHTS(t)
             /\ \/ registerOperationBegin(c, t)
                \/ /\ calls[c].attempts < MaxAttempts
                   /\ calls[c].type = t
                   /\ registerOperationRetry(c))
            => (calls'[c].error = "insufficient_credits"
                /\ UNCHANGED <<packs, operations, services>>)]_vars

\* A full_day debit was refused on a pack with one credit left; its booking is
\* still 'scheduled'.
C6_Witness ==
  \E p \in Packs, s \in Services :
    /\ \E c \in Callers : calls[c].error = "insufficient_credits"
    /\ packs[p].exists
    /\ Remaining(p) = 1
    /\ packs[p].usedCredits > 0
    /\ services[s].exists
    /\ services[s].packId = p
    /\ services[s].type = "full_day"
    /\ services[s].status = "scheduled"

\* The operation documents a step creates.
Created == operations' \ operations

\* C7: a successful debit sets usedCredits to the old value plus the weight,
\* sets isActive to false exactly when the new usedCredits >= totalCredits
\* and otherwise leaves it, and creates exactly one Operation of that weight.
C7_DebitEffect ==
  [][\A c \in Callers :
       (completeServiceCommit(c) \/ registerOperationCommit(c)) =>
         LET p == PackOfCall(c)
             t == IF calls[c].pc = "registerTx" THEN calls[c].type
                  ELSE calls[c].snap.type
         IN /\ packs'[p].usedCredits = packs[p].usedCredits + OPERATION_WEIGHTS(t)
            /\ packs'[p].isActive =
                 IF packs'[p].usedCredits >= packs'[p].totalCredits
                 THEN FALSE ELSE packs[p].isActive
            /\ operations \subseteq operations'
            /\ Cardinality(Created) = 1
            /\ \A o \in Created : o.weight = OPERATION_WEIGHTS(t) /\ o.packId = p]_vars

\* A walk debit has used the last credit of a pack: the pack is inactive and
\* the operation of weight 1 exists.
C7_Witness ==
  \E p \in Packs :
    /\ packs[p].exists
    /\ packs[p].totalCredits = MaxTotalCredits
    /\ packs[p].usedCredits = packs[p].totalCredits
    /\ ~packs[p].isActive
    /\ \E o \in operations : o.packId = p /\ o.type = "walk" /\ o.weight = 1

\* C8: completeService for a booking whose stored status is not 'scheduled'
\* debits no pack, creates no Operation and leaves the booking unchanged.
C8_CompleteOnlyFromScheduled ==
  [][\A c \in Callers :
       (completeServiceCommit(c) /\ services[calls[c].id].status # "scheduled")
       => UNCHANGED <<packs, operations, services>>]_vars

AllowedTransitions ==
  {<<"scheduled", "completed">>, <<"scheduled", "not_done">>,
   <<"scheduled", "cancelled">>, <<"completed", "scheduled">>,
   <<"not_done", "scheduled">>}

\* C9: each change of a booking's status is one of the five listed
\* transitions (markAsNotDone and cancelService change only a 'scheduled'
\* booking).
C9_OnlyListedTransitions ==
  [][\A s \in Services :
       (services[s].exists /\ services'[s].status # services[s].status)
       => <<services[s].status, services'[s].status>> \in AllowedTransitions]_vars

\* C10: once a booking is 'cancelled' it stays 'cancelled'.
C10_CancelledIsTerminal ==
  [][\A s \in Services :
       services[s].status = "cancelled" => services'[s].status = "cancelled"]_vars

\* A step on booking s of an operation without credit effect: the booking
\* becomes 'not_done' or 'cancelled', goes back from 'not_done' to
\* 'scheduled', keeps its status (a reschedule), or has no pack.
NoCreditStep(s) ==
  /\ services[s].exists
  /\ services'[s] # services[s]
  /\ \/ services'[s].status \in {"not_done", "cancelled"}
     \/ services[s].status = "not_done"
     \/ services'[s].status = services[s].status
     \/ services[s].packId = NoPack

\* C11: markAsNotDone, cancelService, a reschedule, revertServiceStatus on a
\* 'not_done' booking, and completeService / revertServiceStatus on a booking
\* without a pack leave every pack and every operation document unchanged.
C11_NoCreditEffect ==
  [][\A s \in Services : NoCreditStep(s) => UNCHANGED <<packs, operations>>]_vars

\* With credits used on the pack: a pack-less booking completed, and a
\* pack-linked booking rescheduled and then marked as not done.
C11_Witness ==
  \E p \in Packs, s, r \in Services :
    /\ packs[p].exists
    /\ packs[p].usedCredits > 0
    /\ operations # {}
    /\ services[s].packId = NoPack
    /\ services[s].status = "completed"
    /\ services[r].packId = p
    /\ services[r].scheduledDate = Midnight(1)
    /\ services[r].status = "not_done"

\* C12: the step by which a 'completed' pack-linked booking goes back to
\* 'scheduled' sets the pack's usedCredits to max(0, usedCredits - weight) and
\* isActive to true, also on a pack closed by hand; when no operation matches
\* the booking it deletes none and the call returns without an error.
C12_RevertCredits ==
  [][\A s \in Services :
       (/\ services[s].status = "completed"
        /\ services[s].packId # NoPack
        /\ services'[s].status = "scheduled")
       => LET pid == services[s].packId
              weight == OPERATION_WEIGHTS(services[s].type)
          IN /\ packs'[pid].usedCredits
                  = Max(0, packs[pid].usedCredits - weight)
             /\ packs'[pid].isActive
             /\ MatchingOperations(services[s]) = {}
                  => operations' = operations
             /\ \A c \in Callers :
                  (calls[c].pc = "revertTx" /\ calls[c].id = s)
                  => calls'[c] = Idle]_vars

\* A reversal about to commit on a pack that was closed by hand with credits
\* left, for a booking that no operation matches.
C12_Witness ==
  \E c \in Callers :
    /\ calls[c].pc = "revertTx"
    /\ calls[c].txValid
    /\ calls[c].txOps = {}
    /\ services[calls[c].id].status = "completed"
    /\ LET pack == packs[calls[c].snap.packId]
       IN /\ pack.exists
          /\ ~pack.isActive
          /\ pack.usedCredits > 0
          /\ pack.usedCredits < pack.totalCredits

\* C13: a pack whose usedCredits have reached totalCredits is not active.
C13_ExhaustedPackInactive ==
  \A p \in Packs :
    (packs[p].exists /\ packs[p].usedCredits >= packs[p].totalCredits)
    => ~packs[p].isActive

\* A pack exhausted by the completion of a booking, after an earlier debit
\* on it had been reverted.
C13_Witness ==
  \E p \in Packs, s \in Services :
    /\ packs[p].exists
    /\ packs[p].usedCredits = packs[p].totalCredits
    /\ ~packs[p].isActive
    /\ lastDebit[p].svc = s
    /\ services[s].status = "completed"
    /\ nextOpId > packs[p].totalCredits + 1

\* C14: a debit on a sitter pack never fails with the insufficient-credits
\* error and never sets the pack inactive, whatever its usedCredits.
C14_SitterUnlimited ==
  [][/\ \A c \in Callers :
          (/\ calls[c].snap.packId \in Packs
           /\ packs[calls[c].snap.packId].serviceType = "sitter"
           /\ calls'[c] # calls[c])
          => calls'[c].error # "insufficient_credits"
     /\ \A p \in Packs :
          (/\ packs[p].serviceType = "sitter"
           /\ packs'[p].usedCredits > packs[p].usedCredits)
          => packs'[p].isActive = packs[p].isActive]_vars

\* C15: completeService on a booking whose pack has been deleted fails with
\* the pack-not-found error (whenever its update function runs, in the
\* first attempt or in a re-run), and no step completes such a booking, sets
\* its completedAt or creates an operation for the deleted pack.
C15_DeletedPack ==
  [][/\ \A c \in Callers :
          (/\ calls[c].snap.packId \in Packs
           /\ ~packs[calls[c].snap.packId].exists
           /\ \/ completeServiceBegin(c)
              \/ calls[c].attempts < MaxAttempts /\ completeServiceRetry(c))
          => (/\ calls'[c].error = "pack_not_found"
              /\ UNCHANGED <<packs, services, operations>>)
     /\ \A s \in Services :
          (/\ services[s].status = "scheduled"
           /\ services[s].packId \in Packs
           /\ ~packs[services[s].packId].exists)
          => (/\ services'[s].status # "completed"
              /\ services'[s].completedAt = Null
              /\ \A o \in operations' \ operations :
                   o.packId # services[s].packId)]_vars

\* A completion refused because the pack of the booking was deleted: the
\* booking is still scheduled and no operation exists.
C15_Witness ==
  \E c \in Callers :
    /\ calls[c].pc = "held"
    /\ calls[c].error = "pack_not_found"
    /\ calls[c].snap.status = "scheduled"
    /\ services[calls[c].id].status = "scheduled"
    /\ services[calls[c].id].completedAt = Null
    /\ packs[calls[c].snap.packId] = DeletedPackDoc
    /\ operations = {}

\* A debit or credit call whose transaction is running.
InTransaction(c) == calls[c].pc \in {"completeTx", "revertGet", "revertTx"}

TimedServices ==
  {s \in Services : services[s].exists /\ services[s].scheduledTime \in SlotCodes}

\* C17 as stated: for every start slot of the catalog, a booking of 60
\* minutes occupies exactly two slots, contiguous in the catalog and
\* beginning at its start slot, and a booking of 30 minutes exactly one, its
\* start slot.
C17_EveryStartSlot ==
  \A s \in TimedServices :
    LET start == services[s].scheduledTime
        i == findIndex(start)
        slots == getOccupiedSlots(start, DurationOf(services[s]))
    IN /\ DurationOf(services[s]) = 60
            => /\ Len(slots) = 2
               /\ slots[1] = start
               /\ i + 1 <= Len(TIME_SLOTS)
               /\ slots[2] = TIME_SLOTS[i + 1]
       /\ DurationOf(services[s]) = 30 => slots = <<start>>

\* C17, amended: for every start slot but the last of the catalog, a booking
\* of 60 minutes occupies exactly two slots, contiguous in the catalog and
\* beginning at its start slot; at the last slot of the catalog it occupies
\* that slot alone; a booking of 30 minutes occupies exactly its start slot.
C17_SixtyMinutes ==
  \A s \in TimedServices :
    LET start == services[s].scheduledTime
        i == findIndex(start)
        slots == getOccupiedSlots(start, DurationOf(services[s]))
    IN /\ (DurationOf(services[s]) = 60 /\ i < Len(TIME_SLOTS))
            => /\ Len(slots) = 2
               /\ slots[1] = start
               /\ slots[2] = TIME_SLOTS[i + 1]
       /\ (DurationOf(services[s]) = 60 /\ i = Len(TIME_SLOTS))
            => slots = <<start>>
       /\ DurationOf(services[s]) = 30 => slots = <<start>>

\* A booking of 60 minutes before the last slot, one of 60 minutes at the
\* last slot, and (in another state) one of 30 minutes.
C17_Witness ==
  /\ services["s1"].exists /\ services["s2"].exists
  /\ services["s1"].scheduledTime = TIME_SLOTS[2]
  /\ services["s1"].duration = 60
  /\ services["s2"].scheduledTime = TIME_SLOTS[Len(TIME_SLOTS)]
  /\ services["s2"].duration \in {30, 60}
  /\ getOccupiedSlots(TIME_SLOTS[2], 60) = <<TIME_SLOTS[2], TIME_SLOTS[3]>>

\* C18: for every catalog start slot at index i and every duration of 30,
\* 60, 90 or 120 minutes, the occupied slots are the catalog slots
\* i .. min(i + ceil(duration / 30) - 1, last index) in catalog order: no
\* wraparound, no code outside the catalog, the start slot first.
C18_ClampedRun ==
  \A s \in TimedServices :
    LET start == services[s].scheduledTime
        i == findIndex(start)
        d == DurationOf(services[s])
        n == CHOOSE k \in 1..4 : 30 * (k - 1) < d /\ d <= 30 * k
        last == Min(i + n - 1, Len(TIME_SLOTS))
        slots == getOccupiedSlots(start, d)
    IN /\ d \in ServiceDuration
       /\ slots = [k \in 1..(last - i + 1) |-> TIME_SLOTS[i + k - 1]]
       /\ slots[1] = start
       /\ \A k \in DOMAIN slots : slots[k] \in SlotCodes

\* A booking of 120 minutes at the slot before the last: the run is cut at
\* the end of the catalog.
C18_Witness ==
  \E s \in TimedServices :
    /\ services[s].scheduledTime = TIME_SLOTS[Len(TIME_SLOTS) - 1]
    /\ services[s].duration = 120
    /\ Len(getOccupiedSlots(services[s].scheduledTime, 120)) = 2

\* The set of the elements of a sequence.
Range(seq) == {seq[k] : k \in DOMAIN seq}

\* C19: the slot view has exactly one entry for every slot of the catalog,
\* and for a booking with a recognized start slot its first occupied slot is
\* a service-start entry and each following occupied slot a
\* service-continuation entry of that booking (stated for a day with one
\* such booking, where no other booking can cover its slots).
C19_StartAndContinuation ==
  LET view == slotsView
      timed == Range(servicesForDate) \cap TimedServices
  IN /\ \A i \in DOMAIN TIME_SLOTS :
          Cardinality({e \in DOMAIN view : view[e].slot = TIME_SLOTS[i]}) = 1
     /\ \A s \in timed :
          LET slots == getOccupiedSlots(services[s].scheduledTime,
                                        DurationOf(services[s]))
          IN timed = {s} =>
               \A k \in DOMAIN slots :
                 \E e \in DOMAIN view :
                   /\ view[e].slot = slots[k]
                   /\ view[e].service = s
                   /\ view[e].type = IF k = 1 THEN "service-start"
                                     ELSE "service-continuation"

\* C20: every booking of the selected date that is not cancelled is shown
\* exactly once, also when occupied slots overlap or a start slot is
\* shared: a booking with a recognized start slot is the service-start
\* entry of that slot, and a booking without a recognized start slot is in
\* the untimed list and in no grid entry.
C20_ShownOnce ==
  LET view == slotsView
      forDate == servicesForDate
      withoutSlot == servicesWithoutSlot
  IN \A s \in Range(forDate) :
       LET starts == {e \in DOMAIN view : /\ view[e].type = "service-start"
                                          /\ view[e].service = s}
           untimed == {e \in DOMAIN withoutSlot : withoutSlot[e] = s}
       IN IF s \in TimedServices
          THEN /\ Cardinality(starts) = 1
               /\ \A e \in starts : view[e].slot = services[s].scheduledTime
               /\ untimed = {}
          ELSE /\ Cardinality(untimed) = 1
               /\ \A e \in DOMAIN view : view[e].service # s

\* The form sessions whose recurrence has been expanded.
Expanded == {c \in DOMAIN calls : /\ calls[c].pc \in {"recurring", "done"}
                                   /\ calls[c].isRecurring}

\* C21: for a start date, an end date after it and a non-empty set of
\* weekdays, generateRecurringDates returns exactly the days from start to
\* end (both included) whose weekday is in the set, each once, in strictly
\* ascending order, each at 12:00.
C21_RecurringDates ==
  \A c \in Expanded :
    LET form == calls[c]
        start == DateOf(form.formData.scheduledDate)
        end == DateOf(form.recurrenceEndDate)
        matching == {d \in start..end : d % 7 \in form.selectedWeekdays}
        dates == form.dates
    IN /\ start < end /\ form.selectedWeekdays # {}
       /\ Len(dates) = Cardinality(matching)
       /\ {dates[k][1] : k \in DOMAIN dates} = matching
       /\ \A k \in DOMAIN dates : dates[k][2] = "12:00"
       /\ \A k \in 1..(Len(dates) - 1) : dates[k][1] < dates[k + 1][1]
       /\ form.recurrenceProgress.total = Len(dates)

\* An expansion over the end of January whose last day is a chosen weekday:
\* Monday 29 January to Friday 2 February, Wednesdays and Fridays.
C21_Witness ==
  \E c \in Expanded :
    /\ calls[c].formData.scheduledDate = <<2024, 1, 29>>
    /\ calls[c].recurrenceEndDate = <<2024, 2, 2>>
    /\ calls[c].selectedWeekdays = {3, 5}
    /\ calls[c].dates = <<Noon(31), Noon(33)>>

\* The form sessions that expanded 2024-01-01 .. 2024-01-15 on Mondays and
\* Wednesdays.
JanuaryMonWed ==
  {c \in Expanded : /\ calls[c].formData.scheduledDate = <<2024, 1, 1>>
                     /\ calls[c].recurrenceEndDate = <<2024, 1, 15>>
                     /\ calls[c].selectedWeekdays = {1, 3}}

\* C22 as stated: the expansion of 2024-01-01 .. 2024-01-15 on Mondays and
\* Wednesdays returns the six matching dates in ascending order.
C22_SixDates ==
  \A c \in JanuaryMonWed :
    /\ Len(calls[c].dates) = 6
    /\ \A k \in 1..(Len(calls[c].dates) - 1) :
         calls[c].dates[k][1] < calls[c].dates[k + 1][1]

\* C22, amended: the expansion of 2024-01-01 .. 2024-01-15 on Mondays and
\* Wednesdays returns the five matching dates, 1, 3, 8, 10 and 15 January,
\* in ascending order, each at 12:00.
C22_FiveDates ==
  \A c \in JanuaryMonWed :
    calls[c].dates = << <<1, "12:00">>, <<3, "12:00">>, <<8, "12:00">>,
                        <<10, "12:00">>, <<15, "12:00">> >>

\* The expansion of the scenario has been computed and its batch written.
C22_Witness ==
  \E c \in JanuaryMonWed :
    /\ calls[c].pc = "done"
    /\ calls[c].recurrenceProgress.total = 5
    /\ Len(calls[c].dates) = 5

\* C23: a recurring request with an end date not after its start date or
\* with no weekday is rejected before any write: the submit step creates no
\* booking, expands nothing and leaves the form with its errors, and no
\* booking is created afterwards.
C23_InvalidRange ==
  /\ [][\A c \in DOMAIN calls :
          (/\ calls[c].pc = "form"
           /\ calls[c].isRecurring
           /\ \/ calls[c].selectedWeekdays = {}
              \/ /\ calls[c].recurrenceEndDate # NoDate
                 /\ DateOf(calls[c].recurrenceEndDate)
                      <= DateOf(calls[c].formData.scheduledDate)
           /\ calls'[c] # calls[c])
          => (/\ services' = services
              /\ calls'[c].pc = "invalid"
              /\ calls'[c].errors # {}
              /\ calls'[c].dates = <<>>
              /\ calls'[c].recurrenceProgress = [current |-> 0, total |-> 0])]_vars
  /\ [](\A c \in DOMAIN calls :
          calls[c].pc = "invalid"
            => \A s \in DOMAIN services : ~services[s].exists)

\* A request with weekdays chosen and an end date equal to the start date
\* was rejected.
C23_Witness ==
  \E c \in DOMAIN calls :
    /\ calls[c].pc = "invalid"
    /\ calls[c].errors = {"endDate"}
    /\ calls[c].selectedWeekdays = {1}
    /\ calls[c].recurrenceEndDate = calls[c].formData.scheduledDate
    /\ \A s \in DOMAIN services : ~services[s].exists

\* The booking documents of the store, in the order of their creation.
CreatedDates ==
  [k \in 1..Cardinality({s \in DOMAIN services : services[s].exists}) |->
     services[BatchSeq[k]].scheduledDate]

\* C24: during and after a recurring creation the progress counter equals
\* the number of booking records committed for the batch, the records are
\* written in ascending date order, and a failed write is not counted.
C24_ProgressCounter ==
  \A c \in Expanded :
    /\ calls[c].recurrenceProgress.current = Len(CreatedDates)
    /\ \A k \in 1..(Len(CreatedDates) - 1) :
         CreatedDates[k][1] < CreatedDates[k + 1][1]

\* C29: a booking created through the schedule form with a duration of 60,
\* 90 or 120 minutes is stored with that duration, and the day view gives
\* it ceil(duration / 30) slots; the same for every record of a batch.
C29_DurationStored ==
  \A c \in DOMAIN calls : \A s \in DOMAIN services :
    (services[s].exists /\ services[s].scheduledTime \in SlotCodes)
      => /\ services[s].duration = calls[c].formData.duration
         /\ Len(getOccupiedSlots(services[s].scheduledTime,
                                  DurationOf(services[s])))
              = (calls[c].formData.duration + 29) \div 30

\* C25: in every state and for every (packId, clientId, scheduledDate), the
\* Operation records with that pack, client and date are as many as the
\* pack-linked bookings with that triple whose status is 'completed' (the
\* operations of registerOperation, dated by the clock, left aside): a
\* booking that is scheduled, not_done or cancelled has no outstanding
\* debit.
C25_OperationPerCompleted ==
  \A p \in Packs, d \in Days :
    \A date \in {Noon(d), Midnight(d)} :
      Cardinality({o \in operations : /\ o.packId = p
                                      /\ o.clientId = "c1"
                                      /\ o.date = date})
        = Cardinality({s \in Services : /\ services[s].exists
                                        /\ services[s].packId = p
                                        /\ services[s].clientId = "c1"
                                        /\ services[s].scheduledDate = date
                                        /\ services[s].status = "completed"})

\* C26: when two completed bookings share pack, client and scheduledDate, a
\* revert of one of them deletes exactly one Operation and credits exactly
\* one weight; the Operation of the other booking stays.
C26_RevertDeletesOne ==
  [][\A c \in Callers :
       (/\ revertServiceCommit(c)
        /\ services[calls[c].id].status = "completed"
        /\ \E r \in Services \ {calls[c].id} :
             /\ services[r].status = "completed"
             /\ SameTriple(services[r], services[calls[c].id])
        /\ Cardinality(MatchingOperations(services[calls[c].id])) = 2)
       => (/\ Cardinality(operations \ operations') = 1
           /\ Cardinality(MatchingOperations(services[calls[c].id])') = 1
           /\ packs'[calls[c].snap.packId].usedCredits
                = Max(0, packs[calls[c].snap.packId].usedCredits
                           - OPERATION_WEIGHTS(calls[c].snap.type)))]_vars

\* C27: two reverts of the same completed pack-linked booking, both holding
\* the 'completed' snapshot, credit the pack at most once: a revert that
\* commits on a booking already put back to 'scheduled', whose operation
\* is gone, leaves usedCredits as it is.
C27_RevertCreditsOnce ==
  [][\A c \in Callers :
       (/\ revertServiceCommit(c)
        /\ calls[c].snap.status = "completed"
        /\ services[calls[c].id].status = "scheduled"
        /\ MatchingOperations(services[calls[c].id]) = {})
       => packs'[calls[c].snap.packId].usedCredits
            = packs[calls[c].snap.packId].usedCredits]_vars

\* C28: updatePack never leaves a pack with totalCredits below usedCredits:
\* after an edit of the capacity, 0 <= usedCredits <= totalCredits holds and
\* a pack with usedCredits >= totalCredits is not active.
C28_EditKeepsCapacity ==
  [][\A p \in Packs :
       (/\ packs[p].exists
        /\ packs'[p].exists
        /\ packs'[p].totalCredits # packs[p].totalCredits)
       => (/\ 0 <= packs'[p].usedCredits
           /\ packs'[p].usedCredits <= packs'[p].totalCredits
           /\ packs'[p].usedCredits >= packs'[p].totalCredits
                => ~packs'[p].isActive)]_vars

\* The finished runs of the migration, as <<session, number of the run>>.
FinishedRuns ==
  {x \in (DOMAIN calls) \X (1..MaxRuns) : x[2] <= Len(calls[x[1]].reports)}

====
